---- MODULE Spec2Model ----
(***************************************************************************)
(* Model of myauth/myauth.py: the auto-login handler (MyLoginHandler), the *)
(* allow-list checks and the new-user hook of MyLocalAuthenticator.        *)
(* Strings are sequences of one-character strings, so that str.replace,    *)
(* string formatting and bytes.decode are computed, not assumed.           *)
(***************************************************************************)
EXTENDS Integers, Sequences, FiniteSets, TLC

VARIABLES
    \* ---- MyLoginHandler ----
    file,            \* content of auto_login_username.txt
    fileExists,      \* whether open() of that file succeeds
    base_url,        \* self.hub.server.base_url
    resp,            \* response of the last GET /login
    prev,            \* response of the GET /login before that
    cookie,          \* login cookie held by the browser
    \* ---- MyLocalAuthenticator: allow lists ----
    whitelist,       \* Authenticator.whitelist
    group_whitelist, \* MyLocalAuthenticator.group_whitelist
    grdb,            \* the OS group database: group name -> gr_mem
    log,             \* what self.log has received
    ret,             \* outcome of the last allow-list check
    \* ---- MyLocalAuthenticator: new-user hook ----
    create_system_users,  \* the configuration flag
    add_user_cmd,    \* the command template, a list of tokens
    pwdb,            \* the OS password database: names with an account
    pc,              \* where each add_user invocation stands
    name,            \* user.name of each invocation
    user_exists,     \* the local user_exists of each invocation
    popen,           \* the child processes each invocation has started
    base_calls,      \* calls of super().add_user by each invocation
    outcome          \* how each invocation ended

loginVars == <<file, fileExists, base_url, resp, prev, cookie>>
authVars == <<whitelist, group_whitelist, grdb, log, ret>>

hookVars == <<create_system_users, add_user_cmd, pwdb, pc, name, user_exists,
              popen, base_calls, outcome>>

vars == <<loginVars, authVars, hookVars>>

\* ------------------------------------------------------------------------
\* Bounds
\* ------------------------------------------------------------------------
MaxFileLen == 2
NumInvocations == 2
MaxCmdLen == 2

\* ------------------------------------------------------------------------
\* Strings
\* ------------------------------------------------------------------------
NL == "\n"

SeqsUpTo(S, n) == UNION {[1..k -> S] : k \in 0..n}

\* str.replace(old, new) for a non-empty old: non-overlapping occurrences,
\* scanned left to right.
ReplaceFirst(s, old, new) ==
    LET hits == {i \in 1..(Len(s) - Len(old) + 1) :
                    SubSeq(s, i, i + Len(old) - 1) = old}
    IN  IF hits = {} THEN s
        ELSE LET i == CHOOSE h \in hits : \A j \in hits : h <= j
             IN  SubSeq(s, 1, i - 1) \o new \o SubSeq(s, i + Len(old), Len(s))

RECURSIVE Replace(_, _, _)
Replace(s, old, new) ==
    IF Len(s) < Len(old) THEN s
    ELSE IF SubSeq(s, 1, Len(old)) = old
         THEN new \o Replace(SubSeq(s, Len(old) + 1, Len(s)), old, new)
         ELSE <<Head(s)>> \o Replace(Tail(s), old, new)

\* str.strip('/')
RECURSIVE LStripSlash(_)
LStripSlash(s) == IF s # <<>> /\ Head(s) = "/" THEN LStripSlash(Tail(s)) ELSE s

RECURSIVE RStripSlash(_)
RStripSlash(s) ==
    IF s # <<>> /\ s[Len(s)] = "/" THEN RStripSlash(SubSeq(s, 1, Len(s) - 1)) ELSE s

StripSlash(s) == RStripSlash(LStripSlash(s))

\* jupyterhub.utils.url_path_join for two pieces
url_path_join(a, b) ==
    LET initial == a # <<>> /\ Head(a) = "/"
        final   == b # <<>> /\ b[Len(b)] = "/"
        sa      == StripSlash(a)
        sb      == StripSlash(b)
        joined  == IF sa # <<>> /\ sb # <<>> THEN sa \o <<"/">> \o sb ELSE sa \o sb
        r1      == IF initial THEN <<"/">> \o joined ELSE joined
        r2      == IF final THEN r1 \o <<"/">> ELSE r1
    IN  IF r2 = <<"/", "/">> THEN <<"/">> ELSE r2

\* ------------------------------------------------------------------------
\* MyLoginHandler
\* ------------------------------------------------------------------------
FileChars == {"a", "b", NL}
FileContents == SeqsUpTo(FileChars, MaxFileLen)
BaseUrls == {<<"/">>, <<"/", "h", "/">>}
Home == <<"h", "o", "m", "e">>

NoUser == [name |-> <<>>]
NoResp == [status |-> "none", user |-> NoUser, location |-> <<>>]
NoCookie == [set |-> FALSE, name |-> <<>>]

\* BaseHandler.user_from_username: the host's user record for a username
user_from_username(username) == [name |-> username]

\* with open(...) as file: username = file.read().replace('\n', '')
ReadUsernameCached ==
    IF cookie.set THEN cookie.name ELSE Replace(file, <<NL>>, <<>>)

ReadUsername == Replace(file, <<NL>>, <<>>)

\* The login handler before any request, with no username file.
IdleLogin ==
    /\ file = <<>>
    /\ fileExists = FALSE
    /\ base_url = <<"/">>
    /\ resp = NoResp
    /\ prev = NoResp
    /\ cookie = NoCookie

Invocations == 1..NumInvocations

NoOutcome == [type |-> "none", msg |-> <<>>]

\* The hook before any invocation, on a system without accounts.
IdleHook ==
    /\ create_system_users = FALSE
    /\ add_user_cmd = <<>>
    /\ pwdb = {}
    /\ pc = [p \in Invocations |-> "idle"]
    /\ name = [p \in Invocations |-> <<>>]
    /\ user_exists = [p \in Invocations |-> FALSE]
    /\ popen = [p \in Invocations |-> <<>>]
    /\ base_calls = [p \in Invocations |-> 0]
    /\ outcome = [p \in Invocations |-> NoOutcome]

\* The authenticator as constructed with no configuration, unused.
IdleAuth ==
    /\ whitelist = {}
    /\ group_whitelist = {}
    /\ grdb = <<>>
    /\ log = {}
    /\ ret = [op |-> "none"]

InitLogin ==
    /\ file \in {<<>>, <<"a", NL>>}
    /\ fileExists \in BOOLEAN
    /\ base_url \in BaseUrls
    /\ resp = NoResp
    /\ prev = NoResp
    /\ cookie = NoCookie
    /\ IdleAuth
    /\ IdleHook

\* Another process writes the username file.
WriteFile ==
    /\ \E c \in FileContents : file' = c
    /\ fileExists' = TRUE
    /\ UNCHANGED <<base_url, resp, prev, cookie, authVars, hookVars>>

\* Another process removes the username file.
RemoveFile ==
    /\ fileExists
    /\ fileExists' = FALSE
    /\ file' = <<>>
    /\ UNCHANGED <<base_url, resp, prev, cookie, authVars, hookVars>>

\* MyLoginHandler.get
Get ==
    /\ prev' = resp
    /\ IF fileExists
       THEN LET username == ReadUsername
                user     == user_from_username(username)
            IN  /\ cookie' = [set |-> TRUE, name |-> user.name]
                /\ resp' = [status |-> "redirect", user |-> user,
                            location |-> url_path_join(base_url, Home)]
       ELSE \* open() raises; the framework answers with an internal error
            /\ cookie' = cookie
            /\ resp' = [status |-> "error", user |-> NoUser, location |-> <<>>]
    /\ UNCHANGED <<file, fileExists, base_url, authVars, hookVars>>

NextLogin == WriteFile \/ RemoveFile \/ Get

SpecLogin == InitLogin /\ [][NextLogin]_vars

\* ------------------------------------------------------------------------
\* Properties of the login handler
\* ------------------------------------------------------------------------
NewlineFree == SeqsUpTo(FileChars \ {NL}, MaxFileLen)

\* C1: every GET /login whose file holds a newline-free username U, with or
\* without one trailing newline, obtains the user record of exactly the U
\* that is in the file at that moment, sets the login cookie for that user
\* and redirects to <base_url>/home.
C1_LoginAuthenticatesCurrentFile ==
    [][\A U \in NewlineFree :
        (Get /\ fileExists /\ (file = U \/ file = U \o <<NL>>))
        => /\ resp'.status = "redirect"
           /\ resp'.user = [name |-> U]
           /\ cookie' = [set |-> TRUE, name |-> U]
           /\ resp'.location = base_url \o Home]_vars

\* A second request has been served a different user than the first one.
C1_Witness ==
    /\ prev.status = "redirect"
    /\ resp.status = "redirect"
    /\ prev.user.name = <<"a">>
    /\ resp.user.name = <<"b">>
    /\ file = <<"b", NL>>
    /\ cookie = [set |-> TRUE, name |-> <<"b">>]

\* C10 as stated: only the trailing newline is removed, every other
\* character, an inner newline included, is kept.
StripTrailingNewline(s) ==
    IF s # <<>> /\ s[Len(s)] = NL THEN SubSeq(s, 1, Len(s) - 1) ELSE s

C10_OnlyTrailingNewlineRemoved ==
    [][(Get /\ fileExists)
        => resp'.user.name = StripTrailingNewline(file)]_vars

\* C10 amended: the username is the file content with every newline
\* removed; all other characters are kept, in order.
C10_AllNewlinesRemoved ==
    [][(Get /\ fileExists)
        => resp'.user.name = SelectSeq(file, LAMBDA c : c # NL)]_vars

\* A login served from a file whose newline is not at the end.
C10_Witness ==
    /\ resp.status = "redirect"
    /\ file = <<NL, "a">>
    /\ resp.user.name = <<"a">>

\* ------------------------------------------------------------------------
\* MyLocalAuthenticator: allow lists
\* ------------------------------------------------------------------------
Users == {"alice", "bob"}
GroupNames == {"staff", "dev"}

\* Every group database over GroupNames: a group is absent or has members.
GroupDbs == UNION {[D -> SUBSET Users] : D \in SUBSET GroupNames}

IgnoringWarning ==
    [level |-> "warning",
     msg |-> "Ignoring username whitelist because group whitelist supplied!",
     arg |-> ""]

NoSuchGroup(grnam) == [level |-> "error", msg |-> "No such group: [%s]", arg |-> grnam]

\* The orders in which a Python set can be iterated
Orders(S) ==
    {o \in [1..Cardinality(S) -> S] :
        \A i, j \in 1..Cardinality(S) : i # j => o[i] # o[j]}

\* grp.getgrnam: the group entry, or KeyError
getgrnam(grnam) ==
    IF grnam \in DOMAIN grdb
    THEN [raised |-> "", gr_mem |-> grdb[grnam]]
    ELSE [raised |-> "KeyError", gr_mem |-> {}]

\* The for loop of check_group_whitelist over the groups still to visit;
\* errors are the groups logged as missing.
RECURSIVE GroupLoopStopAtMissing(_, _)
GroupLoopStopAtMissing(order, username) ==
    IF order = <<>> THEN [result |-> FALSE, raised |-> "", errors |-> {}]
    ELSE LET group == getgrnam(Head(order))
         IN  IF group.raised = "KeyError"
             THEN [result |-> FALSE, raised |-> "", errors |-> {Head(order)}]
             ELSE IF username \in group.gr_mem
                  THEN [result |-> TRUE, raised |-> "", errors |-> {}]
                  ELSE GroupLoopStopAtMissing(Tail(order), username)

RECURSIVE GroupLoop(_, _)
GroupLoop(order, username) ==
    IF order = <<>> THEN [result |-> FALSE, raised |-> "", errors |-> {}]
    ELSE LET group == getgrnam(Head(order))
         IN  IF group.raised = "KeyError"
             THEN LET rest == GroupLoop(Tail(order), username)
                  IN  [rest EXCEPT !.errors = @ \cup {Head(order)}]
             ELSE IF username \in group.gr_mem
                  THEN [result |-> TRUE, raised |-> "", errors |-> {}]
                  ELSE GroupLoop(Tail(order), username)

\* MyLocalAuthenticator.check_group_whitelist, iterating in the given order
check_group_whitelist(order, username) ==
    IF group_whitelist = {}
    THEN [result |-> FALSE, raised |-> "", errors |-> {}]
    ELSE GroupLoop(order, username)

\* Authenticator.check_whitelist of the host framework
base_check_whitelist(username) ==
    IF whitelist = {} THEN TRUE ELSE username \in whitelist

\* MyLocalAuthenticator.check_whitelist
check_whitelist_UserListFirst(order, username) ==
    IF whitelist # {}
    THEN [result |-> base_check_whitelist(username), raised |-> "", errors |-> {}]
    ELSE check_group_whitelist(order, username)

check_whitelist(order, username) ==
    IF group_whitelist # {}
    THEN check_group_whitelist(order, username)
    ELSE [result |-> base_check_whitelist(username), raised |-> "", errors |-> {}]

InitAuth ==
    /\ whitelist = {}
    /\ group_whitelist = {}
    /\ grdb \in GroupDbs
    /\ log = {}
    /\ ret = [op |-> "none"]
    /\ IdleLogin
    /\ IdleHook

\* Configuration assigns the username whitelist.
SetWhitelist ==
    /\ \E w \in SUBSET Users : whitelist' = w
    /\ UNCHANGED <<group_whitelist, grdb, log, ret, loginVars, hookVars>>

\* Configuration assigns group_whitelist; a changed value notifies
\* _group_whitelist_changed.
SetGroupWhitelist ==
    /\ \E g \in SUBSET GroupNames :
        /\ group_whitelist' = g
        /\ log' = IF g # group_whitelist /\ whitelist # {}
                  THEN log \cup {IgnoringWarning}
                  ELSE log
    /\ UNCHANGED <<whitelist, grdb, ret, loginVars, hookVars>>

\* A call of check_whitelist(username)
CheckWhitelist(username) ==
    /\ \E order \in Orders(group_whitelist) :
        LET r == check_whitelist(order, username)
        IN  /\ ret' = [op |-> "check_whitelist", username |-> username,
                       result |-> r.result, raised |-> r.raised]
            /\ log' = log \cup {NoSuchGroup(g) : g \in r.errors}
    /\ UNCHANGED <<whitelist, group_whitelist, grdb, loginVars, hookVars>>

\* A call of check_group_whitelist(username)
CheckGroupWhitelist(username) ==
    /\ \E order \in Orders(group_whitelist) :
        LET r == check_group_whitelist(order, username)
        IN  /\ ret' = [op |-> "check_group_whitelist", username |-> username,
                       result |-> r.result, raised |-> r.raised]
            /\ log' = log \cup {NoSuchGroup(g) : g \in r.errors}
    /\ UNCHANGED <<whitelist, group_whitelist, grdb, loginVars, hookVars>>

NextAuth ==
    \/ SetWhitelist
    \/ SetGroupWhitelist
    \/ \E u \in Users : CheckWhitelist(u)
    \/ \E u \in Users : CheckGroupWhitelist(u)

SpecAuth == InitAuth /\ [][NextAuth]_vars

\* ------------------------------------------------------------------------
\* Properties of the allow lists
\* ------------------------------------------------------------------------
\* The username is a member of a configured group that the database resolves.
InResolvableGroup(username) ==
    \E g \in group_whitelist : g \in DOMAIN grdb /\ username \in grdb[g]

\* C2: with a non-empty group_whitelist, check_whitelist answers as the
\* group check does, whatever the username whitelist holds; with an empty
\* group_whitelist it answers as the host's username allow-list check.
C2_GroupListDominates ==
    [][\A u \in Users :
        CheckWhitelist(u)
        => /\ ret'.raised = ""
           /\ ret'.result = IF group_whitelist # {}
                            THEN InResolvableGroup(u)
                            ELSE (whitelist = {} \/ u \in whitelist)]_vars

\* Both lists are set, the user whitelist rejects bob, the group admits him.
C2_Witness ==
    /\ ret.op = "check_whitelist"
    /\ ret.username = "bob"
    /\ ret.result = TRUE
    /\ whitelist = {"alice"}
    /\ group_whitelist = {"staff"}
    /\ "staff" \in DOMAIN grdb

\* C3: check_group_whitelist never raises and answers true exactly when
\* the username is a member of some configured group that resolves, in
\* every iteration order; missing groups are skipped, and the answer is
\* false for an empty group_whitelist.
C3_GroupCheckIffMember ==
    [][\A u \in Users :
        CheckGroupWhitelist(u)
        => /\ ret'.raised = ""
           /\ ret'.result = InResolvableGroup(u)
           /\ (group_whitelist = {} => ret'.result = FALSE)]_vars

\* A missing group was logged and a later group still admitted the user.
C3_Witness ==
    /\ ret.op = "check_group_whitelist"
    /\ ret.result = TRUE
    /\ ret.username = "alice"
    /\ group_whitelist = {"staff", "dev"}
    /\ "dev" \notin DOMAIN grdb
    /\ NoSuchGroup("dev") \in log

\* C8 as stated: whenever both lists are non-empty, the warning that the
\* username whitelist is ignored has been logged.
C8_WarnedWhenBothSet ==
    (whitelist # {} /\ group_whitelist # {}) => IgnoringWarning \in log

\* ------------------------------------------------------------------------
\* MyLocalAuthenticator: new-user hook
\* ------------------------------------------------------------------------
USERNAME == <<"U", "S", "E", "R", "N", "A", "M", "E">>
Names == {<<"r", "i">>, <<"b">>}

\* Tokens a command template is made of
Tokens ==
    {<<"-", "m">>,
     USERNAME,
     <<"/">> \o USERNAME \o <<"/">>,
     USERNAME \o USERNAME,
     <<"U", "S", "E", "R">>}
Templates == SeqsUpTo(Tokens, MaxCmdLen)

\* Templates the hook is exercised with: pw useradd -m, and a custom home
HookTemplates ==
    {<<<<"p", "w">>, <<"u", "s", "e", "r", "a", "d", "d">>, <<"-", "m">>>>,
     <<<<"a", "d", "d">>, <<"/">> \o USERNAME>>}

\* What the child process can print (bytes) and return
Outputs == {<<"e", "x">>, <<"e", "xFF">>}
ExitCodes == {0, 1, -9}

\* bytes.decode('utf8', 'replace'): an undecodable byte becomes U+FFFD
Decode(bytes) == [i \in DOMAIN bytes |-> IF bytes[i] = "xFF" THEN "uFFFD" ELSE bytes[i]]

Contains(s, sub) ==
    \E i \in 0..(Len(s) - Len(sub)) : SubSeq(s, i + 1, i + Len(sub)) = sub

\* "User %s does not exist." % user.name
KeyErrorMsg(n) == <<"U", "s", "e", "r", " ">> \o n \o <<" ", "d", "o", "e", "s", " ", "n", "o", "t", " ", "e", "x", "i", "s", "t", ".">>

\* "Failed to create system user %s: %s" % (name, err)
RuntimeErrorMsg(n, err) == <<"F", "a", "i", "l", "e", "d", " ", "t", "o", " ", "c", "r", "e", "a", "t", "e", " ", "s", "y", "s", "t", "e", "m", " ", "u", "s", "e", "r", " ">> \o n \o <<":", " ">> \o err

\* MyLocalAuthenticator.system_user_exists
system_user_exists(n) == n \in pwdb

\* cmd = [arg.replace('USERNAME', name) for arg in self.add_user_cmd] + [name]
BuildCmdNoAppend(n) ==
    [i \in 1..Len(add_user_cmd) |-> Replace(add_user_cmd[i], USERNAME, n)]

BuildCmd(n) ==
    [i \in 1..Len(add_user_cmd) |-> Replace(add_user_cmd[i], USERNAME, n)] \o <<n>>

\* if p.returncode:
FailedOnlyPositive(returncode) == returncode > 0

Failed(returncode) == returncode # 0

\* The branches of add_user after the existence check
HookDecisionIgnoreExists(p) ==
    IF create_system_users THEN "create"
    ELSE IF user_exists[p] THEN "super" ELSE "raise"

HookDecisionAlwaysCreate(p) ==
    IF ~user_exists[p] THEN "create" ELSE "super"

HookDecisionRecheck(p) ==
    IF ~user_exists[p] /\ name[p] \notin pwdb
    THEN (IF create_system_users THEN "create" ELSE "raise")
    ELSE "super"

HookDecision(p) ==
    IF ~user_exists[p]
    THEN (IF create_system_users THEN "create" ELSE "raise")
    ELSE "super"

\* MyLocalAuthenticator.add_system_user run by invocation p; next is where
\* p continues when the call returns normally.  The child process is free
\* to print, to return any code and to create the account or not; Popen
\* itself raises OSError when the command cannot be started.
AddSystemUser(p, next) ==
    LET n   == name[p]
        cmd == BuildCmd(n)
    IN  \/ /\ popen' = [popen EXCEPT ![p] =
                    Append(@, [cmd |-> cmd, started |-> FALSE, returncode |-> 0,
                               output |-> <<>>, existed |-> n \in pwdb])]
           /\ outcome' = [outcome EXCEPT ![p] = [type |-> "OSError", msg |-> <<>>]]
           /\ pc' = [pc EXCEPT ![p] = "done"]
           /\ pwdb' = pwdb
        \/ \E rc \in ExitCodes, out \in Outputs, created \in BOOLEAN :
           /\ popen' = [popen EXCEPT ![p] =
                    Append(@, [cmd |-> cmd, started |-> TRUE, returncode |-> rc,
                               output |-> out, existed |-> n \in pwdb])]
           /\ pwdb' = IF created THEN pwdb \cup {n} ELSE pwdb
           /\ IF Failed(rc)
              THEN /\ outcome' = [outcome EXCEPT ![p] =
                          [type |-> "RuntimeError",
                           msg |-> RuntimeErrorMsg(n, Decode(out))]]
                   /\ pc' = [pc EXCEPT ![p] = "done"]
              ELSE /\ outcome' = outcome
                   /\ pc' = [pc EXCEPT ![p] = next]

InitHook ==
    /\ create_system_users \in BOOLEAN
    /\ add_user_cmd \in HookTemplates
    /\ pwdb \in SUBSET Names
    /\ pc = [p \in Invocations |-> "idle"]
    /\ name = [p \in Invocations |-> <<>>]
    /\ user_exists = [p \in Invocations |-> FALSE]
    /\ popen = [p \in Invocations |-> <<>>]
    /\ base_calls = [p \in Invocations |-> 0]
    /\ outcome = [p \in Invocations |-> NoOutcome]
    /\ IdleLogin
    /\ IdleAuth

\* The host framework calls add_user(user).
Call(p) ==
    /\ pc[p] = "idle"
    /\ \E n \in Names : name' = [name EXCEPT ![p] = n]
    /\ pc' = [pc EXCEPT ![p] = "exists"]
    /\ UNCHANGED <<create_system_users, add_user_cmd, pwdb, user_exists, popen,
                   base_calls, outcome, loginVars, authVars>>

\* user_exists = yield gen.maybe_future(self.system_user_exists(user))
SystemUserExists(p) ==
    /\ pc[p] = "exists"
    /\ user_exists' = [user_exists EXCEPT ![p] = system_user_exists(name[p])]
    /\ pc' = [pc EXCEPT ![p] = "branch"]
    /\ UNCHANGED <<create_system_users, add_user_cmd, pwdb, name, popen,
                   base_calls, outcome, loginVars, authVars>>

\* if not user_exists: create the account, or raise KeyError
Branch(p) ==
    /\ pc[p] = "branch"
    /\ LET d == HookDecision(p)
       IN  \/ /\ d = "create"
              /\ AddSystemUser(p, "super")
           \/ /\ d = "raise"
              /\ outcome' = [outcome EXCEPT ![p] =
                     [type |-> "KeyError", msg |-> KeyErrorMsg(name[p])]]
              /\ pc' = [pc EXCEPT ![p] = "done"]
              /\ UNCHANGED <<pwdb, popen>>
           \/ /\ d = "super"
              /\ pc' = [pc EXCEPT ![p] = "super"]
              /\ UNCHANGED <<pwdb, popen, outcome>>
    /\ UNCHANGED <<create_system_users, add_user_cmd, name, user_exists,
                   base_calls, loginVars, authVars>>

\* yield gen.maybe_future(super().add_user(user))
Super(p) ==
    /\ pc[p] = "super"
    /\ base_calls' = [base_calls EXCEPT ![p] = @ + 1]
    /\ outcome' = [outcome EXCEPT ![p] = [type |-> "ok", msg |-> <<>>]]
    /\ pc' = [pc EXCEPT ![p] = "done"]
    /\ UNCHANGED <<create_system_users, add_user_cmd, pwdb, name, user_exists,
                   popen, loginVars, authVars>>

NextHook ==
    \/ \E p \in Invocations : Call(p)
    \/ \E p \in Invocations : SystemUserExists(p)
    \/ \E p \in Invocations : Branch(p)
    \/ \E p \in Invocations : Super(p)

SpecHook == InitHook /\ [][NextHook]_vars

\* ---- add_system_user called on its own, over all templates ----
InitCmd ==
    /\ create_system_users \in BOOLEAN
    /\ add_user_cmd \in Templates
    /\ pwdb = {}
    /\ pc = [p \in Invocations |-> "idle"]
    /\ name = [p \in Invocations |-> <<>>]
    /\ user_exists = [p \in Invocations |-> FALSE]
    /\ popen = [p \in Invocations |-> <<>>]
    /\ base_calls = [p \in Invocations |-> 0]
    /\ outcome = [p \in Invocations |-> NoOutcome]
    /\ IdleLogin
    /\ IdleAuth

\* A caller hands a user to add_system_user.
CallAddSystemUser(p) ==
    /\ pc[p] = "idle"
    /\ \E n \in Names : name' = [name EXCEPT ![p] = n]
    /\ pc' = [pc EXCEPT ![p] = "add_system_user"]
    /\ UNCHANGED <<create_system_users, add_user_cmd, pwdb, user_exists, popen,
                   base_calls, outcome, loginVars, authVars>>

\* The body of add_system_user
RunAddSystemUser(p) ==
    /\ pc[p] = "add_system_user"
    /\ AddSystemUser(p, "done")
    /\ UNCHANGED <<create_system_users, add_user_cmd, name, user_exists,
                   base_calls, loginVars, authVars>>

NextCmd ==
    \/ CallAddSystemUser(1)
    \/ RunAddSystemUser(1)

SpecCmd == InitCmd /\ [][NextCmd]_vars

\* ------------------------------------------------------------------------
\* Properties of the new-user hook
\* ------------------------------------------------------------------------
Checked(p) == pc[p] \in {"branch", "super", "done"}

\* C4: an invocation whose existence check found the OS account never runs
\* the creation command, whatever create_system_users is.
C4_ExistingAccountNeverCreated ==
    \A p \in Invocations :
        (Checked(p) /\ user_exists[p]) => popen[p] = <<>>

\* With creation enabled, an invocation for an existing account finished
\* through the base add_user without starting a process.
C4_Witness ==
    \E p \in Invocations :
        /\ create_system_users
        /\ pc[p] = "done"
        /\ user_exists[p]
        /\ name[p] \in pwdb
        /\ outcome[p].type = "ok"
        /\ popen[p] = <<>>

\* C5: an invocation that found no account while create_system_users is
\* false fails with a "does not exist" error naming the user, starts no
\* process, creates no account and never reaches the base add_user.
C5_MissingAccountRejected ==
    /\ [][\A p \in Invocations :
            (Branch(p) /\ ~user_exists[p] /\ ~create_system_users)
            => /\ pc'[p] = "done"
               /\ outcome'[p].type = "KeyError"
               /\ Contains(outcome'[p].msg, name[p])
               /\ Contains(outcome'[p].msg, <<"d", "o", "e", "s", " ", "n", "o", "t", " ", "e", "x", "i", "s", "t">>)
               /\ popen' = popen
               /\ pwdb' = pwdb
               /\ base_calls' = base_calls]_vars
    /\ [](\A p \in Invocations :
            (pc[p] = "done" /\ ~user_exists[p] /\ ~create_system_users)
            => /\ outcome[p].type = "KeyError"
               /\ popen[p] = <<>>
               /\ base_calls[p] = 0)

\* An invocation was rejected for a user without an account.
C5_Witness ==
    \E p \in Invocations :
        /\ ~create_system_users
        /\ pc[p] = "done"
        /\ name[p] = <<"r", "i">>
        /\ name[p] \notin pwdb
        /\ outcome[p] = [type |-> "KeyError", msg |-> <<"U", "s", "e", "r", " ", "r", "i", " ", "d", "o", "e", "s", " ", "n", "o", "t", " ", "e", "x", "i", "s", "t", ".">>]
        /\ popen[p] = <<>>
        /\ base_calls[p] = 0

\* C6: an invocation that found no account while create_system_users is
\* true starts the creation command exactly once; exit code 0 lets it go on
\* to the base add_user, any other exit code ends it with an error that
\* contains the username and the captured output (as decoded text), and
\* the base add_user is not called.
C6_CreateOnceThenProceedOrFail ==
    \A p \in Invocations :
        (pc[p] \in {"super", "done"} /\ ~user_exists[p] /\ create_system_users)
        => /\ Len(popen[p]) = 1
           /\ LET child == popen[p][1]
              IN  /\ (child.started /\ child.returncode = 0)
                     => /\ pc[p] = "super" => base_calls[p] = 0
                        /\ pc[p] = "done"
                           => outcome[p].type = "ok" /\ base_calls[p] = 1
                  /\ (child.started /\ child.returncode # 0)
                     => /\ pc[p] = "done"
                        /\ outcome[p].type = "RuntimeError"
                        /\ Contains(outcome[p].msg, name[p])
                        /\ Contains(outcome[p].msg, Decode(child.output))
                        /\ base_calls[p] = 0

\* One invocation created its account and was recorded by the base class,
\* another was ended by a child killed by a signal.
C6_Witness ==
    \E p, q \in Invocations :
        /\ create_system_users
        /\ pc[p] = "done" /\ ~user_exists[p] /\ outcome[p].type = "ok"
        /\ Len(popen[p]) = 1 /\ popen[p][1].returncode = 0
        /\ base_calls[p] = 1
        /\ pc[q] = "done" /\ ~user_exists[q]
        /\ Len(popen[q]) = 1 /\ popen[q][1].returncode = -9
        /\ popen[q][1].output = <<"e", "xFF">>
        /\ outcome[q].type = "RuntimeError"
        /\ base_calls[q] = 0

FirstOcc(s, sub) ==
    LET hits == {i \in 1..(Len(s) - Len(sub) + 1) :
                    SubSeq(s, i, i + Len(sub) - 1) = sub}
    IN  IF hits = {} THEN 0 ELSE CHOOSE i \in hits : \A j \in hits : i <= j

RECURSIVE Split(_, _)
Split(s, sep) ==
    LET i == FirstOcc(s, sep)
    IN  IF i = 0 THEN <<s>>
        ELSE <<SubSeq(s, 1, i - 1)>> \o Split(SubSeq(s, i + Len(sep), Len(s)), sep)

RECURSIVE Join(_, _)
Join(parts, glue) ==
    IF Len(parts) = 1 THEN parts[1]
    ELSE parts[1] \o glue \o Join(Tail(parts), glue)

\* C7: the executed argument list has one element more than the template,
\* element i is template token i with every USERNAME replaced by the
\* username, the last element is the username, and the template is left
\* as it was.
C7_ArgumentList ==
    /\ [](\A p \in Invocations : \A k \in DOMAIN popen[p] :
            LET cmd == popen[p][k].cmd
            IN  /\ Len(cmd) = Len(add_user_cmd) + 1
                /\ cmd[Len(cmd)] = name[p]
                /\ \A i \in 1..Len(add_user_cmd) :
                    /\ cmd[i] = Join(Split(add_user_cmd[i], USERNAME), name[p])
                    /\ (~Contains(name[p], USERNAME) => ~Contains(cmd[i], USERNAME)))
    /\ [][add_user_cmd' = add_user_cmd]_vars

\* A template with the placeholder inside a token and twice in a token
C7_Witness ==
    /\ add_user_cmd = <<<<"/">> \o USERNAME \o <<"/">>, USERNAME \o USERNAME>>
    /\ name[1] = <<"r", "i">>
    /\ Len(popen[1]) = 1
    /\ popen[1][1].cmd = <<<<"/", "r", "i", "/">>, <<"r", "i", "r", "i">>, <<"r", "i">>>>

====
